---- MODULE Spec2Model ----
(***************************************************************************)
(* Model of tasker (src/tasker/task.py, src/tasker/progress.py).           *)
(*                                                                         *)
(* Two specifications share the directory state (Status Record, lock       *)
(* markers):                                                               *)
(*   Spec      several processes, each running TaskUnit.run() of a task    *)
(*             in the same working directory, one filesystem operation     *)
(*             per step (the locking protocol of __enter__/__exit__);      *)
(*   SpecWalk  one process driving the dependency walker (_walk_up) and    *)
(*             the public operations of a TaskUnit over a dependency       *)
(*             graph and the files' modification times.                    *)
(***************************************************************************)
EXTENDS Integers, Sequences, FiniteSets, TLC

(* ------------------------------ bounds -------------------------------- *)
\* number of processes sharing the working directory (Spec)
NumProcs == 2
\* largest value of the clock that stamps modification times (SpecWalk)
MaxTime == 2

Procs == 1..NumProcs
\* task names the processes of Spec may run
LockTasks == {1, 2}
\* the tasks of a registry (SpecWalk)
Tasks == {1, 2, 3}
\* literal input files, and the output files a task may declare:
\* OutFile(t, i) is the i-th declared output of task t
LitFiles == {1}
OutFile(t, i) == 10 * t + i
AllFiles == LitFiles \cup {OutFile(t, i) : t \in Tasks, i \in 1..2}
\* fs[f] of a file that does not exist (reading its mtime raises OSError)
Absent == 0
\* _output_mtime of a task with no declared outputs (None in the source)
NoOutputs == -2
\* _output_mtime when a declared output is missing, and the floor of input_mtimes
Missing == -1
\* the process id of the single process of SpecWalk
WalkPid == 1

VARIABLES
    status,     \* the directory's Status Record: NoRecord or [status, task, pid]
    locks,      \* locks[t]: the lock marker of task name t exists
    pc,         \* Spec: pc[p], where process p is in run()
    ptask,      \* Spec: the task name process p runs (or ran last)
    prunning,   \* Spec: TaskUnit._running of that task in process p
    pexc,       \* Spec: an exception is propagating in process p
    pcwd,       \* Spec: the working directory of process p
    pold,       \* Spec: TaskUnit._old_dir in process p
    pres,       \* Spec: how the last run() of process p ended
    g,          \* SpecWalk: the dependency graph of the registry
    fs,         \* SpecWalk: fs[f], modification time of file f, or Absent
    clock,      \* SpecWalk: the time that stamps the next write
    running,    \* SpecWalk: running[t], TaskUnit._running of task t
    syncing,    \* SpecWalk: syncing[t], TaskUnit._syncing of task t
    cwd,        \* SpecWalk: the working directory of the process
    old_dir,    \* SpecWalk: old_dir[t], TaskUnit._old_dir of task t
    sfile,      \* SpecStatus: the inode of the status file, or Absent
    tfile,      \* SpecStatus: the inode of the temporary file, or Absent
    inodes,     \* SpecStatus: inodes[i], the content of inode i
    wpc,        \* SpecStatus: wpc[p], where process p is in its run
    wfd,        \* SpecStatus: wfd[p], the inode process p has open, or Absent
    wst,        \* SpecStatus: wst[p], the status process p is writing
    answer        \* SpecStatus: what the last is_working() call returned

procvars == <<pc, ptask, prunning, pexc, pcwd, pold, pres>>
walkvars == <<g, fs, clock, running, syncing, cwd, old_dir>>
filevars == <<sfile, tfile, inodes, wpc, wfd, wst, answer>>
vars == <<status, locks, procvars, walkvars, filevars>>

(* ------------------------- dependency graphs -------------------------- *)
\* A registry: per task the number of declared outputs (0: TaskUnitNoStore),
\* the literal input files, the upstream tasks in the order of _ins_as_given
\* (ins) and in the order of the list made from the set of
\* _flatten_dependencies (input_tasks).
Graph(o, f, i, it) == [outs |-> o, in_files |-> f, ins |-> i, input_tasks |-> it]

\* 3 <- 2 <- 1, all storing, task 1 without inputs
GChain == Graph(<<1, 1, 1>>, <<{}, {}, {}>>,
                <<<<>>, <<1>>, <<2>>>>, <<<<>>, <<1>>, <<2>>>>)
\* 2 <- 1 <- file 1, both storing; task 3 has no inputs and no outputs
GLit == Graph(<<1, 1, 0>>, <<{1}, {}, {}>>,
              <<<<>>, <<1>>, <<>>>>, <<<<>>, <<1>>, <<>>>>)
\* 3 <- {2, 1}, 2 <- 1: task 1 is reached over two paths, all storing
GDiamond == Graph(<<1, 1, 1>>, <<{}, {}, {}>>,
                  <<<<>>, <<1>>, <<2, 1>>>>, <<<<>>, <<1>>, <<2, 1>>>>)
\* 3 <- {1, 2}, 2 <- 1, task 2 non-storing and reading file 1; the set order
\* of input_tasks differs from the order the inputs were given in
GMixed == Graph(<<1, 0, 1>>, <<{}, {1}, {}>>,
                <<<<>>, <<1>>, <<1, 2>>>>, <<<<>>, <<1>>, <<2, 1>>>>)
\* 3 <- 2 <- 1 with 2 and 3 non-storing, 3 reading file 1
GNoStore == Graph(<<1, 0, 0>>, <<{}, {}, {1}>>,
                  <<<<>>, <<1>>, <<2>>>>, <<<<>>, <<1>>, <<2>>>>)
\* task 1 without inputs and outputs, task 2 storing without inputs,
\* task 3 with two outputs reading task 2
GLeaves == Graph(<<0, 1, 2>>, <<{}, {}, {}>>,
                 <<<<>>, <<>>, <<2>>>>, <<<<>>, <<>>, <<2>>>>)
\* 1 <- 2 <- 1: a cycle of storing tasks, and 3 <- 2
GCycle == Graph(<<1, 1, 1>>, <<{}, {}, {}>>,
                <<<<2>>, <<1>>, <<2>>>>, <<<<2>>, <<1>>, <<2>>>>)
\* 1 <- 3 <- 2 <- 1: a cycle through a non-storing task
GCycle3 == Graph(<<1, 0, 1>>, <<{1}, {}, {}>>,
                 <<<<3>>, <<1>>, <<2>>>>, <<<<3>>, <<1>>, <<2>>>>)
\* task 1 non-storing and its own input; 3 <- 2 <- file 1, acyclic
GSelf == Graph(<<0, 1, 1>>, <<{}, {1}, {}>>,
               <<<<1>>, <<>>, <<2>>>>, <<<<1>>, <<>>, <<2>>>>)

\* 1 <- {3, 2} and 2 <- 1: a cycle whose node 1 first visits the leaf 3
GCycleSide == Graph(<<1, 1, 1>>, <<{}, {}, {}>>,
                    <<<<3, 2>>, <<1>>, <<>>>>, <<<<3, 2>>, <<1>>, <<>>>>)

\* 3 <- 2 <- 1 <- file 1 with 1 and 2 non-storing; 3 stores and reads file 1
GDeep == Graph(<<0, 0, 1>>, <<{1}, {}, {1}>>,
               <<<<>>, <<1>>, <<2>>>>, <<<<>>, <<1>>, <<2>>>>)

Graphs == {GChain, GLit, GDiamond, GMixed, GNoStore, GLeaves, GDeep,
           GCycle, GCycle3, GSelf, GCycleSide}

\* set of the elements of a sequence
Range(q) == {q[i] : i \in 1..Len(q)}

\* TaskUnit.output_files
output_files(t) == {OutFile(t, i) : i \in 1..g.outs[t]}

\* TaskUnit.input_files: the literal files and, for every upstream task,
\* that task's output files (_flatten_dependencies_recurse adds them)
input_files(t) ==
    g.in_files[t] \cup UNION {output_files(u) : u \in Range(g.ins[t])}

\* the files the graph names
GraphFiles == UNION {output_files(t) \cup g.in_files[t] : t \in Tasks}

\* a task that stores its outputs (TaskUnit) or not (TaskUnitNoStore)
Storing(t) == g.outs[t] > 0

\* the tasks reachable from t over one or more input edges
RECURSIVE UpFrom(_, _)
UpFrom(front, seen) ==
    LET nxt == UNION {Range(g.input_tasks[u]) : u \in front} \ seen
    IN IF nxt = {} THEN seen ELSE UpFrom(nxt, seen \cup nxt)
Upstream(t) == UpFrom({t}, {})

OnCycle(t) == t \in Upstream(t)
\* no cycle can be reached from t
AcyclicFrom(t) == ~OnCycle(t) /\ \A u \in Upstream(t) : ~OnCycle(u)

Max(S) == CHOOSE x \in S : \A y \in S : y <= x

(* --------------------------- Status Record ---------------------------- *)
\* no Status Record file in the directory
NoRecord == [status |-> "absent", task |-> 0, pid |-> 0]

\* StatusFile.update: the record that replaces the file's content
StatusUpdate(st, t, p) == [status |-> st, task |-> t, pid |-> p]

\* the first half of Tasker.is_working: the Status Record is readable and
\* says "working" (an absent file is an IOError, answered False)
says_working(rec) == rec.status = "working"

\* Tasker.is_working(task=t), evaluated on one snapshot of the directory
is_working(t, rec, lk) == says_working(rec) /\ lk[t]

\* Tasker.is_working() without a task name
is_working_any(rec) == says_working(rec)

(* --------------------- the status file on disk ------------------------ *)
\* the inodes of the directory: the status file, the temporary file and the
\* files the processes hold open
Inodes == 1..(NumProcs + 2)

\* the 'status' values StatusFile.update is called with
Statuses == {"working", "done", "ERROR"}

\* the text json.dump produces for an update of process p: a sequence of
\* pieces, each tagged with the update it comes from; a longer status
\* string gives a longer text
RecLen(st) == IF st = "done" THEN 1 ELSE IF st = "ERROR" THEN 2 ELSE 3
Record(p, st) == [i \in 1..RecLen(st) |-> [w |-> p, st |-> st]]

\* a write of text rec at offset 0 of a file holding old
Overwrite(old, rec) == rec \o SubSeq(old, Len(rec) + 1, Len(old))

\* a status file that StatusFile.update did not write: one that cannot be
\* opened for reading, one that is not JSON, JSON that is not an object,
\* an object without the key 'status'
ForeignKinds == {"unreadable", "notjson", "notobject", "nostatus"}
Foreign(k) == <<[w |-> 0, st |-> k]>>
IsForeign(c) == \E k \in ForeignKinds : c = Foreign(k)

\* the content is the text of exactly one update
IsRecord(c) == \E p \in Procs : \E st \in Statuses : c = Record(p, st)

\* open, json.load and sfinfo['status'] in Tasker.is_working on a status
\* file with inode sf: the exception raised, or the status that is read
status_read(sf, ino) ==
    IF sf = Absent THEN "IOError"
    ELSE LET c == ino[sf]
         IN CASE IsRecord(c) -> c[1].st
              [] c = Foreign("unreadable") -> "IOError"
              [] c = Foreign("notobject") -> "TypeError"
              [] c = Foreign("nostatus") -> "KeyError"
              [] OTHER -> "ValueError"

\* Tasker.is_working(task) (t = 0: no task name) on what status_read gave:
\* the value returned ("None": the function falls off its end), or the
\* exception that leaves it
is_working_result(t, read, lk) ==
    CASE read \in {"IOError", "ValueError", "KeyError"} -> "False"
      [] read = "working" -> IF t = 0 \/ lk[t] THEN "True" ELSE "False"
      [] read \in Statuses \ {"working"} -> "None"
      [] OTHER -> read

(* ----------------- SpecWalk: running a task (one process) ------------- *)
\* What the computations do during one operation: task `bad` (0: none)
\* misbehaves in the way `kind`, every other computation writes its declared
\* outputs and returns as many values. A write is stamped with the clock,
\* which advances between operations (Tick).
\*   "raise"    the computation raises
\*   "nowrite"  it returns without writing its (literal path) outputs
\*   "inraise"  reading one of the task's input artifacts raises
\*   "badcount" it writes its outputs and returns a wrong number of values
Kinds == {"raise", "nowrite", "inraise", "badcount"}
KindsOf(t) ==
    {"raise", "inraise"} \cup (IF g.outs[t] >= 1 THEN {"nowrite"} ELSE {})
                         \cup (IF g.outs[t] >= 2 THEN {"badcount"} ELSE {})
OkBeh == [bad |-> 0, kind |-> "ok"]
Behaviours == {OkBeh} \cup {[bad |-> t, kind |-> k] : t \in Tasks, k \in Kinds}
\* the behaviours that differ on the registry: a task without outputs writes
\* nothing, and a wrong count is only noticed for two or more outputs
GraphBehaviours == {b \in Behaviours : b.bad = 0 \/ b.kind \in KindsOf(b.bad)}

\* the state an operation works on: the variables, the behaviour of the
\* computations, the computations invoked so far (log), for each of them
\* whether the task's marker and flag were set at that moment (held), and
\* the exception that is propagating ("none": none)
StateOf(b) ==
    [fs |-> fs, clock |-> clock, status |-> status, locks |-> locks,
     running |-> running, syncing |-> syncing, cwd |-> cwd, old_dir |-> old_dir,
     beh |-> b, log |-> <<>>, held |-> <<>>, ev |-> <<>>, exc |-> "none"]

\* the trace of a call: s.ev records, in order, where the call stack has been
\* ("visit"/"return": _walk_up entered/returned, "decide": the staleness test,
\* "enter"/"exit": __enter__ took the lock / __exit__ ran, "func": self.func)
Noted(s, e, t) == [s EXCEPT !.ev = Append(@, [e |-> e, t |-> t])]
Untraced(s) == [s EXCEPT !.ev = <<>>]

Raise(s, e) == [s EXCEPT !.exc = e]
Raised(s) == s.exc # "none"
KindOf(t, s) == IF s.beh.bad = t THEN s.beh.kind ELSE "ok"

\* TaskUnit.__exit__: finalize the Status Record, clear the flag, remove the
\* marker, change back to the directory __enter__ was called in
exit(t, s) ==
    [s EXCEPT !.status = StatusUpdate(IF Raised(s) THEN "ERROR" ELSE "done", t, WalkPid),
              !.running[t] = FALSE,
              !.locks[t] = FALSE,
              !.cwd = s.old_dir[t],
              !.ev = Append(@, [e |-> "exit", t |-> t])]

\* self.func(self, ins) and what TaskUnit.run does with the returned values:
\* the count check (for two or more declared outputs) and the saving
func_stored(t, s) ==
    LET k == KindOf(t, s)
        now == s.clock
        s1 == [s EXCEPT !.log = Append(@, t),
                        !.held = Append(@, s.locks[t] /\ s.running[t]),
                        !.ev = Append(@, [e |-> "func", t |-> t])]
        written == [s1 EXCEPT !.fs = [f \in AllFiles |->
                                IF f \in output_files(t) THEN now ELSE s1.fs[f]]]
    IN CASE k = "raise" -> Raise(s1, "FuncError")
         [] k = "nowrite" -> s1
         [] k = "badcount" ->
                \* len(self.outdata): the attribute does not exist
                IF g.outs[t] >= 2 THEN Raise(written, "AttributeError") ELSE written
         [] OTHER -> written

\* self.func(self, ins) of a TaskUnitNoStore: the value is returned as it is
func_nostore(t, s) ==
    LET s1 == [s EXCEPT !.log = Append(@, t),
                        !.held = Append(@, s.locks[t] /\ s.running[t]),
                        !.ev = Append(@, [e |-> "func", t |-> t])]
    IN IF KindOf(t, s) = "raise" THEN Raise(s1, "FuncError") ELSE s1

\* TaskUnit._output_mtime
output_mtime(t, files) ==
    IF g.outs[t] = 0 THEN NoOutputs
    ELSE IF \E f \in output_files(t) : files[f] = Absent THEN Missing
    ELSE Max({files[f] : f \in output_files(t)})

\* what _walk_up returns (the fields of a raised traversal are not used)
NoResult ==
    [all_current |-> FALSE, needed_tasks |-> <<>>, visited_tasks |-> <<>>,
     mtime |-> Missing, done |-> FALSE]

RECURSIVE Concat(_)
Concat(qs) == IF qs = <<>> THEN <<>> ELSE Head(qs) \o Concat(Tail(qs))

\* F applied to the value of v, with v evaluated once
Bind(v, F(_)) == CHOOSE r \in {F(x) : x \in {v}} : TRUE

RECURSIVE walk_up(_, _, _, _)
RECURSIVE walk_inputs(_, _, _, _)
RECURSIVE enter(_, _)
RECURSIVE prepare_ins(_, _)
RECURSIVE call_nostore(_, _)

\* run that leaves the computation out
run_without_func(t, s) ==
    Bind(enter(t, s), LAMBDA e : IF Raised(e) THEN e ELSE exit(t, e))

\* TaskUnit.run: __enter__, the computation, __exit__
run(t, s) ==
    Bind(enter(t, s), LAMBDA e :
        IF Raised(e) THEN e
        ELSE Bind(func_stored(t, e), LAMBDA f : exit(t, f)))

\* run_task when self.run() is never called
run_task_skipped(t, s) == s

\* self.run() as _walk_up calls it: TaskUnitNoStore.run does nothing
run_task(t, s) == IF Storing(t) THEN run(t, s) ELSE s

\* the first lines of __enter__: the in-process flag, then is_working
lock_check(t, s) == s.running[t] \/ is_working(t, s.status, s.locks)

\* __enter__ once the checks passed: the old directory, the flag, chdir,
\* the lock marker, the "working" Status Record
acquire(t, s) ==
    [s EXCEPT !.old_dir[t] = s.cwd,
              !.running[t] = TRUE,
              !.cwd = "work",
              !.locks[t] = TRUE,
              !.status = StatusUpdate("working", t, WalkPid),
              !.ev = Append(@, [e |-> "enter", t |-> t])]

\* __enter__ without the except clause that calls __exit__
enter_without_cleanup(t, s) ==
    IF lock_check(t, s) THEN Raise(s, "LockException")
    ELSE Bind(acquire(t, s), LAMBDA s1 :
         Bind(prepare_ins(g.ins[t], s1), LAMBDA s2 :
              IF ~Raised(s2) /\ KindOf(t, s2) = "inraise"
              THEN Raise(s2, "InputError") ELSE s2))

\* TaskUnit.__enter__: the lock checks, then lock, status and inputs; an
\* exception while the inputs are resolved goes through __exit__
enter(t, s) ==
    IF lock_check(t, s) THEN Raise(s, "LockException")
    ELSE Bind(acquire(t, s), LAMBDA s1 :
         Bind(prepare_ins(g.ins[t], s1), LAMBDA s2 :
         Bind(IF ~Raised(s2) /\ KindOf(t, s2) = "inraise"
              THEN Raise(s2, "InputError") ELSE s2, LAMBDA s3 :
              IF Raised(s3) THEN exit(t, s3) ELSE s3)))

\* prepare_ins when an upstream storing task is called (sync, then load)
\* and not only loaded
prepare_ins_synced(ts, s) ==
    IF ts = <<>> \/ Raised(s) THEN s
    ELSE Bind(IF Storing(Head(ts)) THEN walk_up(Head(ts), TRUE, FALSE, s).s
              ELSE call_nostore(Head(ts), s),
              LAMBDA s2 : prepare_ins(Tail(ts), s2))

\* _nestmap(self._prepare_data, ins) over the upstream tasks: load() of a
\* storing task reads its outputs, load() of a TaskUnitNoStore is __call__
prepare_ins(ts, s) ==
    IF ts = <<>> \/ Raised(s) THEN s
    ELSE IF Storing(Head(ts)) THEN prepare_ins(Tail(ts), s)
    ELSE Bind(call_nostore(Head(ts), s), LAMBDA s2 : prepare_ins(Tail(ts), s2))

\* call_nostore without self.sync()
call_nostore_without_sync(t, s) ==
    Bind(enter(t, s), LAMBDA e :
        IF Raised(e) THEN e
        ELSE Bind(func_nostore(t, e), LAMBDA f : exit(t, f)))

\* TaskUnitNoStore.__call__ (also its load and force): sync, then the
\* computation under the task's lock
call_nostore(t, s) ==
    Bind(walk_up(t, TRUE, FALSE, s), LAMBDA w :
        IF Raised(w.s) THEN w.s
        ELSE Bind(enter(t, w.s), LAMBDA e :
                 IF Raised(e) THEN e
                 ELSE Bind(func_nostore(t, e), LAMBDA f : exit(t, f))))

\* walk_inputs when the upstream tasks of a running traversal are forced
walk_inputs_forced(ts, run_flag, s, acc) ==
    IF ts = <<>> THEN [s |-> s, urs |-> acc]
    ELSE Bind(walk_up(Head(ts), run_flag, run_flag, s), LAMBDA w :
             IF Raised(w.s) THEN [s |-> w.s, urs |-> acc]
             ELSE walk_inputs(Tail(ts), run_flag, w.s, Append(acc, w.r)))

\* up_results = [it._walk_up(run=run) for it in self.input_tasks]
walk_inputs(ts, run_flag, s, acc) ==
    IF ts = <<>> THEN [s |-> s, urs |-> acc]
    ELSE Bind(walk_up(Head(ts), run_flag, FALSE, s), LAMBDA w :
             IF Raised(w.s) THEN [s |-> w.s, urs |-> acc]
             ELSE walk_inputs(Tail(ts), run_flag, w.s, Append(acc, w.r)))

\* needs_run with the test for a missing output left out
needs_run_ignores_missing(force, om, newest, all_cur) ==
    force \/ (om # NoOutputs /\ om # Missing /\ om < newest) \/ ~all_cur

\* needs_run when the outputs' mtime is compared although there is none
needs_run_compares_none(force, om, newest, all_cur) ==
    force \/ om = Missing \/ om < newest \/ ~all_cur

\* the decision of _walk_up once the upstream results are in: whether the
\* task needs to run
needs_run(force, om, newest, all_cur) ==
    force \/ om = Missing \/ (om # NoOutputs /\ om < newest) \/ ~all_cur

\* the check after self.run(): the outputs are older than the newest input
failed_to_update(om, newest) == om # NoOutputs /\ om < newest

\* newest_input with a missing input file counted as newer than any output
newest_input_counts_missing(t, files, urs) ==
    Max({Missing} \cup {urs[i].mtime : i \in 1..Len(urs)}
                  \cup {IF files[f] = Absent THEN MaxTime + 1 ELSE files[f] :
                            f \in input_files(t)})

\* max(input_mtimes): the floor -1, the upstream results' mtimes and the
\* mtimes of the input files that exist
newest_input(t, files, urs) ==
    Max({Missing} \cup {urs[i].mtime : i \in 1..Len(urs)}
                  \cup {files[f] : f \in {x \in input_files(t) : files[x] # Absent}})

\* result['mtime']: the outputs' mtime, or max(input_mtimes) without outputs
effective_mtime(om, newest) == IF om = NoOutputs THEN newest ELSE om

\* 'done' when a task with outputs is held to the rule for one without
done_whatever_stored(t, files, urs, om) ==
    ~((\E f \in input_files(t) : files[f] = Absent)
      \/ \E i \in 1..Len(urs) : ~urs[i].done)

\* 'done' of a task that need not run: a task without outputs is done only
\* if no input file is missing and every upstream task is done
done_without_run(t, files, urs, om) ==
    ~(om = NoOutputs
      /\ ((\E f \in input_files(t) : files[f] = Absent)
          \/ \E i \in 1..Len(urs) : ~urs[i].done))

\* _walk_up after the recursion: s is the state with the flag cleared
\* again, urs the upstream results
walk_decide(t, run_flag, force, s, urs) ==
    LET all_cur == \A i \in 1..Len(urs) : urs[i].all_current
        needed == Concat([i \in 1..Len(urs) |-> urs[i].needed_tasks])
        visited == <<t>> \o Concat([i \in 1..Len(urs) |-> urs[i].visited_tasks])
        newest == newest_input(t, s.fs, urs)
        om == output_mtime(t, s.fs)
        stale == [all_current |-> FALSE, needed_tasks |-> Append(needed, t),
                  visited_tasks |-> visited, mtime |-> Missing, done |-> FALSE]
    IN IF needs_run(force, om, newest, all_cur)
       THEN IF run_flag
            THEN Bind(run_task(t, s), LAMBDA s2 :
                     IF Raised(s2) THEN [s |-> s2, r |-> NoResult]
                     ELSE IF failed_to_update(output_mtime(t, s2.fs), newest)
                     THEN [s |-> Raise(s2, "FailedToUpdate"), r |-> NoResult]
                     ELSE [s |-> s2,
                           r |-> [stale EXCEPT !.mtime =
                                    effective_mtime(output_mtime(t, s2.fs), newest)]])
            ELSE [s |-> s, r |-> [stale EXCEPT !.mtime = effective_mtime(om, newest)]]
       ELSE [s |-> s,
             r |-> [all_current |-> TRUE, needed_tasks |-> needed,
                    visited_tasks |-> visited, mtime |-> effective_mtime(om, newest),
                    done |-> done_without_run(t, s.fs, urs, om)]]

\* clear_syncing without the finally: the flag stays set when the
\* traversal of the inputs raised
clear_syncing_unless_raised(t, s) ==
    IF Raised(s) THEN s ELSE [s EXCEPT !.syncing[t] = FALSE]

\* clear_syncing when the flag is never cleared
clear_syncing_never(t, s) == s

\* the finally clause of _walk_up: the traversing flag is cleared
clear_syncing(t, s) == [s EXCEPT !.syncing[t] = FALSE]

\* a walk that has come back from a node
returned(t, w) == IF Raised(w.s) THEN w ELSE [w EXCEPT !.s = Noted(w.s, "return", t)]

\* a walk that decides on the node before it walks the node's inputs
walk_up_preorder(t, run_flag, force, s) ==
    IF s.syncing[t] THEN [s |-> Raise(s, "CyclicDependency"), r |-> NoResult]
    ELSE Bind(walk_decide(t, run_flag, force,
                          Noted(Noted(s, "visit", t), "decide", t), <<>>), LAMBDA d :
         IF Raised(d.s) THEN d
         ELSE Bind(walk_inputs(g.input_tasks[t], run_flag,
                               [d.s EXCEPT !.syncing[t] = TRUE], <<>>), LAMBDA up :
              Bind(clear_syncing(t, up.s), LAMBDA s1 :
                  IF Raised(s1) THEN [s |-> s1, r |-> NoResult]
                  ELSE returned(t, [s |-> s1, r |-> d.r]))))

\* TaskUnit._walk_up
walk_up(t, run_flag, force, s) ==
    IF s.syncing[t] THEN [s |-> Raise(s, "CyclicDependency"), r |-> NoResult]
    ELSE Bind(walk_inputs(g.input_tasks[t], run_flag,
                          Noted([s EXCEPT !.syncing[t] = TRUE], "visit", t), <<>>),
              LAMBDA up :
         Bind(clear_syncing(t, up.s), LAMBDA s1 :
             IF Raised(s1) THEN [s |-> s1, r |-> NoResult]
             ELSE Bind(walk_decide(t, run_flag, force, Noted(s1, "decide", t), up.urs),
                       LAMBDA w : returned(t, w))))

\* _uniq: remove duplicates, keeping the first occurrence of each item
RECURSIVE uniq_from(_, _)
uniq_from(l, r) ==
    IF l = <<>> THEN r
    ELSE uniq_from(Tail(l), IF Head(l) \in Range(r) THEN r ELSE Append(r, Head(l)))
\* uniq that keeps the duplicates
uniq_keeps_all(l) == l

uniq(l) == uniq_from(l, <<>>)

\* TaskUnit.clear: the output files of the task are deleted;
\* TaskUnitNoStore.clear raises NotImplementedError
clear(t, s) ==
    IF Storing(t)
    THEN [s EXCEPT !.fs = [f \in AllFiles |->
                              IF f \in output_files(t) THEN Absent ELSE s.fs[f]]]
    ELSE Raise(s, "NotImplementedError")

\* the loop body of Tasker.clear without the isinstance test
clear_every(t, s) == clear(t, s)

\* the loop body of Tasker.clear: a TaskUnitNoStore is skipped
clear_unless_nostore(t, s) == IF Storing(t) THEN clear(t, s) ELSE s

\* Tasker.clear: the loop over the registered tasks ts
RECURSIVE clear_tasks(_, _)
clear_tasks(ts, s) ==
    IF ts = {} \/ Raised(s) THEN s
    ELSE \* self.tasks.values(), an exception ends the loop
         LET t == CHOOSE x \in ts : \A y \in ts : x <= y
         IN clear_tasks(ts \ {t}, clear_unless_nostore(t, s))

(* --------------------- SpecWalk: the operations ----------------------- *)
\* On a state s (the variables, or the state an operation ended in):
\* TaskUnit.is_current and TaskUnit.report are _walk_up() without running;
\* a traversal that raises gives no answer (here FALSE and the empty list)
is_current_in(t, s) ==
    Bind(walk_up(t, FALSE, FALSE, s), LAMBDA w : ~Raised(w.s) /\ w.r.done)
report_in(t, s) ==
    Bind(walk_up(t, FALSE, FALSE, s), LAMBDA w :
        IF Raised(w.s) THEN <<>> ELSE uniq(w.r.needed_tasks))

\* TaskUnit.sync
sync_in(t, s) == walk_up(t, TRUE, FALSE, s).s

\* TaskUnit.force (load() of literal path outputs changes nothing), and
\* TaskUnitNoStore.force, which is __call__
force_in(t, s) ==
    IF Storing(t) THEN walk_up(t, TRUE, TRUE, s).s ELSE call_nostore(t, s)

\* the operations on the current state of the variables
Now == StateOf(OkBeh)
is_current(t) == is_current_in(t, Now)
report(t) == report_in(t, Now)

Commit(s) ==
    /\ fs' = s.fs
    /\ clock' = s.clock
    /\ status' = s.status
    /\ locks' = s.locks
    /\ running' = s.running
    /\ syncing' = s.syncing
    /\ cwd' = s.cwd
    /\ old_dir' = s.old_dir
    /\ UNCHANGED <<g, procvars, filevars>>

InitWalk ==
    /\ g \in Graphs
    /\ fs \in {m \in [AllFiles -> {Absent, 1}] :
                 \A f \in AllFiles : m[f] # Absent
                     => f \in LitFiles /\ \E t \in Tasks : f \in g.in_files[t]}
    /\ clock = 1
    /\ status = NoRecord
    /\ locks = [t \in Tasks |-> FALSE]
    /\ running = [t \in Tasks |-> FALSE]
    /\ syncing = [t \in Tasks |-> FALSE]
    /\ cwd = "home"
    /\ old_dir = [t \in Tasks |-> "home"]

Sync(n) ==
    \E b \in GraphBehaviours :
        \E s0 \in {StateOf(b)} :
            \E s \in {sync_in(n, s0)} :
                Commit(s)

Run(n) ==
    \E b \in GraphBehaviours :
        \E s0 \in {StateOf(b)} :
            \E s \in {run_task(n, s0)} :
                Commit(s)

Force(n) ==
    \E b \in GraphBehaviours :
        \E s0 \in {StateOf(b)} :
            \E s \in {force_in(n, s0)} :
                Commit(s)

IsCurrent(n) ==
    \E s0 \in {Now} :
        \E w \in {walk_up(n, FALSE, FALSE, s0)} :
            Commit(w.s)

Report(n) ==
    \E s0 \in {Now} :
        \E w \in {walk_up(n, FALSE, FALSE, s0)} :
            Commit(w.s)

\* the environment writes a file (or sets its modification time to now)
TouchFile(f) ==
    /\ f \in GraphFiles
    /\ fs[f] # clock
    /\ fs' = [fs EXCEPT ![f] = clock]
    /\ UNCHANGED <<procvars, filevars, g, clock, status, locks, running, syncing, cwd, old_dir>>

\* the environment deletes a file
DeleteFile(f) ==
    /\ f \in GraphFiles
    /\ fs[f] # Absent
    /\ fs' = [fs EXCEPT ![f] = Absent]
    /\ UNCHANGED <<procvars, filevars, g, clock, status, locks, running, syncing, cwd, old_dir>>

\* time passes
Tick ==
    /\ clock < MaxTime
    /\ clock' = clock + 1
    /\ UNCHANGED <<procvars, filevars, g, fs, status, locks, running, syncing, cwd, old_dir>>

\* TaskUnit.clear of task n
Clear(n) ==
    \E s \in {clear(n, Now)} : Commit(s)

\* Tasker.clear
ClearAll ==
    \E s \in {clear_tasks(Tasks, Now)} : Commit(s)

NextWalk ==
    \/ \E n \in Tasks : Clear(n)
    \/ ClearAll
    \/ \E n \in Tasks : Sync(n)
    \/ \E n \in Tasks : Run(n)
    \/ \E n \in Tasks : Force(n)
    \/ \E n \in Tasks : IsCurrent(n)
    \/ \E n \in Tasks : Report(n)
    \/ \E f \in AllFiles : TouchFile(f)
    \/ \E f \in AllFiles : DeleteFile(f)
    \/ Tick

InitProcs ==
    /\ pc = [p \in Procs |-> "idle"]
    /\ ptask = [p \in Procs |-> 1]
    /\ prunning = [p \in Procs |-> FALSE]
    /\ pexc = [p \in Procs |-> FALSE]
    /\ pcwd = [p \in Procs |-> "home"]
    /\ pold = [p \in Procs |-> "home"]
    /\ pres = [p \in Procs |-> "none"]

\* no status file written yet, no process in a run
InitFiles ==
    /\ sfile = Absent
    /\ tfile = Absent
    /\ inodes = [i \in Inodes |-> <<>>]
    /\ wpc = [p \in Procs |-> "idle"]
    /\ wfd = [p \in Procs |-> Absent]
    /\ wst = [p \in Procs |-> "done"]
    /\ answer = "none"

\* the walker alone: no other process is active
InitSingle == InitWalk /\ InitProcs /\ InitFiles

SpecWalk == InitSingle /\ [][NextWalk]_vars

(* ------------------- Spec: the locking protocol ----------------------- *)
\* the tasks the processes run read files only: the registry is GLeaves and
\* the walker's variables stay as they start
InitLock ==
    /\ InitProcs
    /\ InitWalk
    /\ InitFiles
    /\ g = GLeaves
    /\ fs = [f \in AllFiles |-> Absent]

\* run() is called on task t: __enter__ looks at the in-process flag
Start(p, t) ==
    /\ pc[p] = "idle"
    /\ ptask' = [ptask EXCEPT ![p] = t]
    /\ pexc' = [pexc EXCEPT ![p] = FALSE]
    /\ IF prunning[p]
       THEN /\ pc' = pc
            /\ pres' = [pres EXCEPT ![p] = "LockException"]
       ELSE /\ pc' = [pc EXCEPT ![p] = "read_status"]
            /\ pres' = [pres EXCEPT ![p] = "none"]
    /\ UNCHANGED <<walkvars, filevars, status, locks, prunning, pcwd, pold>>

\* is_working: open and parse the Status Record
ReadStatus(p) ==
    /\ pc[p] = "read_status"
    /\ pc' = [pc EXCEPT ![p] = IF says_working(status) THEN "check_lock" ELSE "getcwd"]
    /\ UNCHANGED <<walkvars, filevars, status, locks, ptask, prunning, pexc, pcwd, pres, pold>>

\* is_working: the record says "working", so the task's marker decides
CheckLock(p) ==
    /\ pc[p] = "check_lock"
    /\ IF locks[ptask[p]]
       THEN /\ pc' = [pc EXCEPT ![p] = "idle"]
            /\ pres' = [pres EXCEPT ![p] = "LockException"]
       ELSE /\ pc' = [pc EXCEPT ![p] = "getcwd"]
            /\ pres' = pres
    /\ UNCHANGED <<walkvars, filevars, status, locks, ptask, prunning, pexc, pcwd, pold>>

\* both checks passed: remember the directory, set the flag, chdir, touch the marker
Touch(p) ==
    /\ pc[p] = "getcwd"
    /\ prunning' = [prunning EXCEPT ![p] = TRUE]
    /\ pold' = [pold EXCEPT ![p] = pcwd[p]]
    /\ pcwd' = [pcwd EXCEPT ![p] = "work"]
    /\ locks' = [locks EXCEPT ![ptask[p]] = TRUE]
    /\ pc' = [pc EXCEPT ![p] = "working"]
    /\ UNCHANGED <<walkvars, filevars, status, ptask, pexc, pres>>

\* progress.working(): the Status Record becomes "working" for this task
Working(p) ==
    /\ pc[p] = "working"
    /\ status' = StatusUpdate("working", ptask[p], p)
    /\ pc' = [pc EXCEPT ![p] = "prepare"]
    /\ UNCHANGED <<walkvars, filevars, locks, ptask, prunning, pexc, pcwd, pres, pold>>

\* the inputs are resolved; reading one may raise, and __enter__ then cleans up
Prepare(p) ==
    /\ pc[p] = "prepare"
    /\ \E ok \in BOOLEAN :
         /\ pc' = [pc EXCEPT ![p] = IF ok THEN "func" ELSE "exit_status"]
         /\ pexc' = [pexc EXCEPT ![p] = ~ok]
    /\ UNCHANGED <<walkvars, filevars, status, locks, ptask, prunning, pcwd, pres, pold>>

\* the computation runs (and the outputs are counted and saved); it may raise
Func(p) ==
    /\ pc[p] = "func"
    /\ \E ok \in BOOLEAN :
         /\ pc' = [pc EXCEPT ![p] = "exit_status"]
         /\ pexc' = [pexc EXCEPT ![p] = ~ok]
    /\ UNCHANGED <<walkvars, filevars, status, locks, ptask, prunning, pcwd, pres, pold>>

\* __exit__: the Status Record is finalized and the flag cleared
ExitStatus(p) ==
    /\ pc[p] = "exit_status"
    /\ status' = StatusUpdate(IF pexc[p] THEN "ERROR" ELSE "done", ptask[p], p)
    /\ prunning' = [prunning EXCEPT ![p] = FALSE]
    /\ pc' = [pc EXCEPT ![p] = "exit_exists"]
    /\ UNCHANGED <<walkvars, filevars, locks, ptask, pexc, pcwd, pres, pold>>

\* __exit__: if self._lockfile.exists()
ExitExists(p) ==
    /\ pc[p] = "exit_exists"
    /\ pc' = [pc EXCEPT ![p] = IF locks[ptask[p]] THEN "exit_unlink" ELSE "exit_chdir"]
    /\ UNCHANGED <<walkvars, filevars, status, locks, ptask, prunning, pexc, pcwd, pres, pold>>

\* __exit__: self._lockfile.unlink(); a marker that another process removed
\* since the test makes unlink raise, and the chdir back is skipped
ExitUnlink(p) ==
    /\ pc[p] = "exit_unlink"
    /\ IF locks[ptask[p]]
       THEN /\ locks' = [locks EXCEPT ![ptask[p]] = FALSE]
            /\ pc' = [pc EXCEPT ![p] = "exit_chdir"]
            /\ pres' = pres
       ELSE /\ locks' = locks
            /\ pc' = [pc EXCEPT ![p] = "idle"]
            /\ pres' = [pres EXCEPT ![p] = "OSError"]
    /\ UNCHANGED <<walkvars, filevars, status, ptask, prunning, pexc, pcwd, pold>>

\* __exit__: os.chdir(self._old_dir), and run() returns or re-raises
ExitChdir(p) ==
    /\ pc[p] = "exit_chdir"
    /\ pcwd' = [pcwd EXCEPT ![p] = pold[p]]
    /\ pc' = [pc EXCEPT ![p] = "idle"]
    /\ pres' = [pres EXCEPT ![p] = IF pexc[p] THEN "raised" ELSE "ok"]
    /\ UNCHANGED <<walkvars, filevars, status, locks, ptask, prunning, pexc, pold>>

NextLock ==
    \/ \E p \in Procs, t \in LockTasks : Start(p, t)
    \/ \E p \in Procs : ReadStatus(p)
    \/ \E p \in Procs : CheckLock(p)
    \/ \E p \in Procs : Touch(p)
    \/ \E p \in Procs : Working(p)
    \/ \E p \in Procs : Prepare(p)
    \/ \E p \in Procs : Func(p)
    \/ \E p \in Procs : ExitStatus(p)
    \/ \E p \in Procs : ExitExists(p)
    \/ \E p \in Procs : ExitUnlink(p)
    \/ \E p \in Procs : ExitChdir(p)

Spec == InitLock /\ [][NextLock]_vars

(* ------------- SpecRecover: killed processes and unlock() ------------- *)
\* unlock with the status file left in place
unlock_status_kept(rec) == rec

\* Tasker.unlock: 'if sfn.exists(): sfn.unlink()'
unlock_status(rec) == NoRecord
\* Tasker.unlock: 'lfd.rmtree()' removes every lock marker
unlock_locks(lk) == [t \in Tasks |-> FALSE]

\* process p is killed inside run() while its marker exists: the marker and
\* the Status Record stay as they are, the process is gone
Kill(p) ==
    /\ pc[p] \in {"working", "prepare", "func", "exit_status", "exit_exists",
                  "exit_unlink"}
    /\ locks[ptask[p]]
    /\ pc' = [pc EXCEPT ![p] = "dead"]
    /\ UNCHANGED <<walkvars, filevars, status, locks, ptask, prunning, pexc,
                   pcwd, pold, pres>>

\* process p calls Tasker.unlock(): the status file and the lock directory
\* are removed
Unlock(p) ==
    /\ pc[p] = "idle"
    /\ status' = unlock_status(status)
    /\ locks' = unlock_locks(locks)
    /\ UNCHANGED <<walkvars, filevars, procvars>>

NextRecover ==
    \/ NextLock
    \/ \E p \in Procs : Kill(p)
    \/ \E p \in Procs : Unlock(p)

SpecRecover == InitLock /\ [][NextRecover]_vars

(* --------- SpecStatus: writing and reading the Status Record ---------- *)
\* Each process runs a task of its own, so that no lock marker is shared:
\* __enter__ touches the marker and writes "working", __exit__ writes "done"
\* or "ERROR" and removes the marker. A write is StatusFile.update, one
\* file operation per step; the walker's variables and the variables of
\* Spec stay as they start.
OwnTask(p) == p

\* the inodes in use and the one a newly created file gets
Refs(sf, tf, fd) == {sf, tf} \cup {fd[p] : p \in Procs}
NewInode ==
    CHOOSE i \in Inodes \ Refs(sfile, tfile, wfd) :
        \A j \in Inodes \ Refs(sfile, tfile, wfd) : i <= j
\* the content of an inode that nothing refers to is gone
Keep(ino, refs) == [i \in Inodes |-> IF i \in refs THEN ino[i] ELSE <<>>]

\* __enter__: the lock check passes, the marker is touched and
\* progress.working() begins
Begin(p) ==
    /\ wpc[p] = "idle"
    /\ is_working_result(OwnTask(p), status_read(sfile, inodes), locks)
           \in {"False", "None"}
    /\ locks' = [locks EXCEPT ![OwnTask(p)] = TRUE]
    /\ wst' = [wst EXCEPT ![p] = "working"]
    /\ wpc' = [wpc EXCEPT ![p] = "open"]
    /\ UNCHANGED <<status, procvars, walkvars, sfile, tfile, inodes, wfd, answer>>

\* tmpfile = open(tmpname, 'w'): the file is created, or truncated when it
\* exists; every process uses the same name
OpenTmp(p) ==
    /\ wpc[p] = "open"
    /\ \E i \in {IF tfile = Absent THEN NewInode ELSE tfile} :
           /\ tfile' = i
           /\ inodes' = [inodes EXCEPT ![i] = <<>>]
           /\ wfd' = [wfd EXCEPT ![p] = i]
    /\ wpc' = [wpc EXCEPT ![p] = "dump"]
    /\ UNCHANGED <<status, locks, procvars, walkvars, sfile, wst, answer>>

\* json.dump and tmpfile.close(): the buffered text is written at the start
\* of the open file
DumpClose(p) ==
    /\ wpc[p] = "dump"
    /\ wfd' = [wfd EXCEPT ![p] = Absent]
    /\ inodes' = Keep([inodes EXCEPT ![wfd[p]] = Overwrite(@, Record(p, wst[p]))],
                      Refs(sfile, tfile, wfd'))
    /\ wpc' = [wpc EXCEPT ![p] = "rename"]
    /\ UNCHANGED <<status, locks, procvars, walkvars, sfile, tfile, wst, answer>>

\* os.rename(tmpname, self.filename). Without a temporary file it raises
\* OSError: in __enter__ that leads to __exit__ and the update to "ERROR",
\* in __exit__ it leaves the run with the flag set and the marker in place
Rename(p) ==
    /\ wpc[p] = "rename"
    /\ IF tfile = Absent
       THEN /\ wpc' = [wpc EXCEPT ![p] = IF wst[p] = "working" THEN "open" ELSE "failed"]
            /\ wst' = [wst EXCEPT ![p] = IF wst[p] = "working" THEN "ERROR" ELSE @]
            /\ UNCHANGED <<sfile, tfile, inodes>>
       ELSE /\ sfile' = tfile
            /\ tfile' = Absent
            /\ inodes' = Keep(inodes, Refs(tfile, Absent, wfd))
            /\ wpc' = [wpc EXCEPT ![p] = IF wst[p] = "working" THEN "computing" ELSE "unlink"]
            /\ wst' = wst
    /\ UNCHANGED <<status, locks, procvars, walkvars, wfd, answer>>

\* the computation returns or raises: __exit__ begins its update
Finish(p, st) ==
    /\ wpc[p] = "computing"
    /\ wst' = [wst EXCEPT ![p] = st]
    /\ wpc' = [wpc EXCEPT ![p] = "open"]
    /\ UNCHANGED <<status, locks, procvars, walkvars, sfile, tfile, inodes, wfd, answer>>

\* __exit__ after its update: the marker is removed
Unlink(p) ==
    /\ wpc[p] = "unlink"
    /\ locks' = [locks EXCEPT ![OwnTask(p)] = FALSE]
    /\ wpc' = [wpc EXCEPT ![p] = "idle"]
    /\ UNCHANGED <<status, procvars, walkvars, sfile, tfile, inodes, wfd, wst, answer>>

\* between runs, something else leaves a status file of kind k
ForeignWrite(k) ==
    /\ \A p \in Procs : wpc[p] \in {"idle", "failed"}
    /\ \E i \in {IF sfile = Absent THEN NewInode ELSE sfile} :
           /\ sfile' = i
           /\ inodes' = [inodes EXCEPT ![i] = Foreign(k)]
    /\ UNCHANGED <<status, locks, procvars, walkvars, tfile, wpc, wfd, wst, answer>>

\* a reader calls Tasker.is_working(t), without a task name when t = 0
IsWorking(t) ==
    /\ answer' = is_working_result(t, status_read(sfile, inodes), locks)
    /\ UNCHANGED <<status, locks, procvars, walkvars, sfile, tfile, inodes, wpc, wfd, wst>>

NextStatus ==
    \/ \E p \in Procs : Begin(p)
    \/ \E p \in Procs : OpenTmp(p)
    \/ \E p \in Procs : DumpClose(p)
    \/ \E p \in Procs : Rename(p)
    \/ \E p \in Procs : \E st \in {"done", "ERROR"} : Finish(p, st)
    \/ \E p \in Procs : Unlink(p)
    \/ \E k \in ForeignKinds : ForeignWrite(k)
    \/ \E t \in {0} \cup Tasks : IsWorking(t)

SpecStatus == InitLock /\ [][NextStatus]_vars

(* ------------------- claims about the locking protocol ---------------- *)
\* process p is executing the computation of its task
Computing(p) == pc[p] = "func"

\* C1 (as claimed): mutual exclusion - the computation of one task name never
\* executes in two processes of the directory at the same time.
C1_MutualExclusion ==
    \A p, q \in Procs :
        (p # q /\ ptask[p] = ptask[q]) => ~(Computing(p) /\ Computing(q))

\* C2 (as claimed): a run of T attempted while T's lock marker of an earlier,
\* unreleased attempt exists fails with a LockException before the
\* computation - no process passes the lock checks of __enter__ while the
\* marker of its task exists - and the rejected attempt leaves the Status
\* Record, the markers, the running flag and the working directory as they were.
C2_HeldLockRejects ==
    [][\A p \in Procs :
         /\ (pc[p] \in {"read_status", "check_lock"} /\ pc'[p] = "getcwd")
                => ~locks[ptask[p]]
         /\ (pc[p] = "check_lock" /\ pc'[p] = "idle")
                => /\ pres'[p] = "LockException"
                   /\ UNCHANGED <<status, locks, prunning, pcwd>>]_vars

\* process p is the only one inside run() of its task
AloneOnTask(p) == \A q \in Procs \ {p} : pc[q] = "idle" \/ ptask[q] # ptask[p]

\* C3 (as claimed): while the computation of task T is executing (here in the
\* only process that runs T), is_working(task=T) evaluated on the directory
\* returns true, whatever other tasks start or finish there meanwhile.
C3_WorkingWhileComputing ==
    \A p \in Procs :
        (Computing(p) /\ AloneOnTask(p)) => is_working(ptask[p], status, locks)

\* C4 (as claimed): on every exit path of a run that passed the lock checks,
\* when control leaves run() the running flag is cleared, the working
\* directory is the one the run started in, and the run ends normally or
\* with the exception that was propagating, unchanged.
C4_ExitRestores ==
    [][\A p \in Procs :
         (pc[p] \in {"exit_unlink", "exit_chdir"} /\ pc'[p] = "idle")
             => /\ ~prunning'[p]
                /\ pcwd'[p] = pold[p]
                /\ pres'[p] = (IF pexc[p] THEN "raised" ELSE "ok")]_vars

(* ---------------------- claims about the walker ----------------------- *)
\* the files task t depends on, directly or through its upstream tasks
DepFiles(t) == input_files(t) \cup UNION {input_files(u) : u \in Upstream(t)}

\* every declared output of t exists
OutputsExist(t, files) == \A f \in output_files(t) : files[f] # Absent

\* the state s for the next operation, with well-behaved computations
Again(s) == [s EXCEPT !.log = <<>>, !.held = <<>>, !.ev = <<>>, !.beh = OkBeh, !.exc = "none"]

\* the current state after the environment deleted file f
Deleted(f) == [Now EXCEPT !.fs[f] = Absent]

\* how often the computation of t was invoked
Count(t, log) == Cardinality({i \in 1..Len(log) : log[i] = t})

\* C5 (as claimed, for the storing nodes): on an acyclic graph, when sync()
\* on a node returns successfully, then (no file changing meanwhile)
\* is_current() is true, report() is empty and a second sync() invokes no
\* computation.
C5_SyncBringsUpToDate ==
    \A n \in Tasks : (Storing(n) /\ AcyclicFrom(n)) =>
        \A b \in GraphBehaviours : \A s \in {sync_in(n, StateOf(b))} :
            ~Raised(s) =>
                /\ is_current_in(n, Again(s))
                /\ report_in(n, Again(s)) = <<>>
                /\ sync_in(n, Again(s)).log = <<>>

\* a file that storing node t depends on is newer than t's own output
StaleDep(t, files) ==
    /\ OutputsExist(t, files)
    /\ \E f \in DepFiles(t) : files[f] # Absent /\ files[f] > output_mtime(t, files)

\* C6 (as claimed): while a file that storing node A depends on, directly or
\* through upstream tasks, is newer than A's output, A.is_current() is false;
\* and when A.sync() then succeeds, A.is_current() is true and a further
\* sync invokes no computation.
C6_StalenessPropagates ==
    \A a \in Tasks : (Storing(a) /\ AcyclicFrom(a) /\ StaleDep(a, fs)) =>
        /\ ~is_current(a)
        /\ \A b \in GraphBehaviours : \A s \in {sync_in(a, StateOf(b))} :
               ~Raised(s) =>
                   /\ is_current_in(a, Again(s))
                   /\ sync_in(a, Again(s)).log = <<>>

\* C7: a missing input file never by itself causes a run - for a storing node
\* that is current (is_current() true, report() empty), after any existing
\* literal input file is deleted is_current() is still true and report()
\* empty, and sync() succeeds without invoking a computation or changing a file.
C7_MissingInputNoRun ==
    \A n \in Tasks : (Storing(n) /\ AcyclicFrom(n) /\ is_current(n) /\ report(n) = <<>>) =>
        \A f \in LitFiles : fs[f] # Absent =>
            \A s0 \in {Deleted(f)} :
                /\ is_current_in(n, s0)
                /\ report_in(n, s0) = <<>>
                /\ \A b \in GraphBehaviours :
                       \A s \in {sync_in(n, [s0 EXCEPT !.beh = b])} :
                           ~Raised(s) /\ s.log = <<>> /\ s.fs = s0.fs

\* C7 witness: a current storing node that depends on an existing literal file
C7_Witness ==
    \E n \in Tasks :
        /\ Storing(n) /\ AcyclicFrom(n) /\ is_current(n)
        /\ \E f \in LitFiles \cap DepFiles(n) : fs[f] # Absent
        /\ status.status = "done"

\* no upstream task of n needs to run
UpCurrent(n, s) ==
    \A u \in Range(g.input_tasks[n]) :
        \A w \in {walk_up(u, FALSE, FALSE, s)} : ~Raised(w.s) /\ w.r.all_current

\* C8 (as claimed): for a storing node whose upstream dependencies are all
\* current, after one of its output files is deleted is_current() is false
\* and sync() invokes the computation of exactly that node, once, and of no
\* upstream dependency.
C8_DeletedOutputReruns ==
    \A n \in Tasks : (Storing(n) /\ AcyclicFrom(n) /\ UpCurrent(n, Now)) =>
        \A f \in output_files(n) : fs[f] # Absent =>
            \A s0 \in {Deleted(f)} :
                /\ ~is_current_in(n, s0)
                /\ \A s \in {sync_in(n, s0)} : s.log = <<n>>

\* C8 (amended): ... is_current() is false, and sync() invokes the computation
\* of no other storing task and that of the node at most once: exactly once
\* unless the resolution of its inputs raises. (The non-storing upstream
\* tasks among its inputs are computed again to supply their values.)
C8_DeletedOutputReruns_amended ==
    \A n \in Tasks : (Storing(n) /\ AcyclicFrom(n) /\ UpCurrent(n, Now)) =>
        \A f \in output_files(n) : fs[f] # Absent =>
            \A s0 \in {Deleted(f)} :
                /\ ~is_current_in(n, s0)
                /\ \A b \in GraphBehaviours :
                       \A s \in {sync_in(n, [s0 EXCEPT !.beh = b])} :
                           /\ \A u \in Tasks \ {n} : Storing(u) => Count(u, s.log) = 0
                           /\ Count(n, s.log) <= 1
                           /\ Count(n, s.log) = 0 => Raised(s)
                           /\ \A u \in Range(s.log) : u = n \/ u \in Upstream(n)

\* C8 witness: a storing node with all outputs present that reads a
\* non-storing upstream task, no upstream task needing a run
C8_Witness ==
    \E n \in Tasks :
        /\ Storing(n) /\ AcyclicFrom(n) /\ UpCurrent(n, Now)
        /\ OutputsExist(n, fs)
        /\ \E u \in Range(g.ins[n]) : ~Storing(u)
        /\ status = StatusUpdate("done", n, WalkPid)

\* the errors with which a run started by a traversal can end it
RunErrors == {"FuncError", "InputError", "AttributeError", "FailedToUpdate"}

\* C9 (as claimed): started on a node of a cycle, sync(), is_current() and
\* report() fail with the cyclic-dependency error, and after any traversal
\* every traversing flag is cleared.
C9_CycleDetected ==
    /\ \A t \in Tasks : ~syncing[t]
    /\ \A n \in Tasks : OnCycle(n) =>
           /\ walk_up(n, FALSE, FALSE, Now).s.exc = "CyclicDependency"
           /\ \A b \in GraphBehaviours :
                  sync_in(n, StateOf(b)).exc = "CyclicDependency"

\* C9 (amended): started on a node of a cycle, is_current() and report() fail
\* with the cyclic-dependency error; sync() always fails too, with the
\* cyclic-dependency error unless a run that the traversal started before
\* it came back to the node fails first (with well-behaved computations it
\* is the cyclic-dependency error). After any traversal, returned or raised,
\* every traversing flag is cleared.
C9_CycleDetected_amended ==
    /\ \A t \in Tasks : ~syncing[t]
    /\ \A n \in Tasks : OnCycle(n) =>
           /\ \A w \in {walk_up(n, FALSE, FALSE, Now)} :
                  /\ w.s.exc = "CyclicDependency"
                  /\ \A t \in Tasks : ~w.s.syncing[t]
           /\ \A b \in GraphBehaviours : \A s \in {sync_in(n, StateOf(b))} :
                  /\ s.exc \in {"CyclicDependency"} \cup RunErrors
                  /\ b = OkBeh => s.exc = "CyclicDependency"
                  /\ \A t \in Tasks : ~s.syncing[t]

\* C9 witness: on a graph with a cycle, a traversal has run a task on its way
C9_Witness ==
    \E n \in Tasks :
        /\ OnCycle(n)
        /\ \E u \in Upstream(n) : ~OnCycle(u) /\ status = StatusUpdate("done", u, WalkPid)
        /\ \A t \in Tasks : ~syncing[t]

\* task t, visited on its own, would have to run
NeedsRun(t) == \A w \in {walk_up(t, FALSE, FALSE, Now)} : ~w.r.all_current

\* C10: on an acyclic graph report() lists every task that needs to run
\* exactly once, also one reached over several paths, every listed task
\* after all listed tasks upstream of it and the queried node, when listed,
\* last; a second call, on the state the first one left, gives the same list.
C10_ReportOrder ==
    \A n \in Tasks : AcyclicFrom(n) =>
        \A w \in {walk_up(n, FALSE, FALSE, Now)} : \A r \in {uniq(w.r.needed_tasks)} :
            /\ ~Raised(w.s)
            /\ \A i, j \in 1..Len(r) : r[i] = r[j] => i = j
            /\ Range(r) = {t \in {n} \cup Upstream(n) : NeedsRun(t)}
            /\ \A i, j \in 1..Len(r) : r[j] \in Upstream(r[i]) => j < i
            /\ n \in Range(r) => r[Len(r)] = n
            /\ report_in(n, Again(w.s)) = r

\* C10 witness: a task that needs to run is reached over several paths of a
\* traversal that has been made before (its first run left the record)
C10_Witness ==
    \E n \in Tasks :
        /\ AcyclicFrom(n)
        /\ Len(walk_up(n, FALSE, FALSE, Now).r.needed_tasks) > Len(report(n))
        /\ Len(report(n)) >= 2
        /\ status.status = "done"

(* ------------------------------- C11 ---------------------------------- *)
\* the storing tasks of a list
StoringOf(l) == {u \in Range(l) : Storing(u)}

\* C11 as stated: on an acyclic graph, the tasks whose computation a
\* successful sync() of n invokes are exactly the tasks n.report() returned
\* just before
C11_ReportPredictsSync ==
    \A n \in Tasks : AcyclicFrom(n) =>
        \A b \in GraphBehaviours : \A s \in {sync_in(n, StateOf(b))} :
            ~Raised(s) => Range(s.log) = Range(report(n))

\* C11 amended: on an acyclic graph, the storing tasks whose computation a
\* successful sync() of n invokes are exactly the storing tasks n.report()
\* returned just before; a task without outputs is computed by the sync only
\* while the inputs of a storing task that the sync runs are resolved: as an
\* input of that task, or of an input without outputs that is computed so
C11_ReportPredictsSync_amended ==
    \A n \in Tasks : AcyclicFrom(n) =>
        \A b \in GraphBehaviours : \A s \in {sync_in(n, StateOf(b))} :
            ~Raised(s) =>
                /\ StoringOf(s.log) = StoringOf(report(n))
                /\ \A u \in Range(s.log) \ StoringOf(s.log) :
                       \E v \in StoringOf(s.log) : u \in Upstream(v)

\* a sync is about to run a storing task and, as its input, a task without
\* outputs, and a report lists a task without outputs
C11_Witness ==
    \E n \in Tasks :
        /\ AcyclicFrom(n)
        /\ \E s \in {sync_in(n, Now)} :
               /\ ~Raised(s)
               /\ StoringOf(s.log) # {}
               /\ Range(s.log) \ StoringOf(s.log) # {}
        /\ \E m \in Tasks : AcyclicFrom(m) /\ Range(report(m)) \ StoringOf(report(m)) # {}

(* ------------------------------- C12 ---------------------------------- *)
\* C12: is_current() and report() (the traversal without running) invoke no
\* computation, leave the lock markers, the Status Record, the files and the
\* working directory as they were, and on return - also when the traversal
\* raises on a cycle - every running and traversing flag has the value it had
C12_QueriesChangeNothing ==
    \A n \in Tasks : \A w \in {walk_up(n, FALSE, FALSE, Now)} :
        /\ w.s.log = <<>>
        /\ w.s.locks = locks
        /\ w.s.status = status
        /\ w.s.fs = fs
        /\ w.s.cwd = cwd
        /\ w.s.running = running
        /\ w.s.syncing = syncing

\* a directory that has seen a run, with one task current and another one
\* that report() lists
C12_Witness ==
    /\ status.status # "absent"
    /\ \E f \in AllFiles : fs[f] # Absent
    /\ \E n \in Tasks : is_current(n)
    /\ \E n \in Tasks : report(n) # <<>>

(* ------------------------------- C13 ---------------------------------- *)
\* the computation of task n returns a wrong number of values
BadCount(n) == [bad |-> n, kind |-> "badcount"]

\* C13 as stated, for the tasks on which run() compares the counts (two or
\* more declared outputs): when the computation returns a wrong number of
\* values, run() fails with the output-count-mismatch RuntimeError, the
\* Status Record is left as ERROR and the lock is released
C13_CountMismatchError ==
    \A n \in Tasks : g.outs[n] >= 2 =>
        \A s \in {run(n, StateOf(BadCount(n)))} :
            Count(n, s.log) = 1 =>
                /\ s.exc = "RuntimeError"
                /\ s.status.status = "ERROR"
                /\ ~s.locks[n]

(* ------------------------------- C14 ---------------------------------- *)
\* C14 as stated, for a declared output that is still missing once the
\* computation has returned (so that it is not newer than any dependency):
\* a sync() that ran the computation of the storing task n and left an
\* output of n missing does not report success
C14_StaleOutputDetected ==
    \A n \in Tasks : Storing(n) =>
        \A b \in GraphBehaviours : \A s \in {sync_in(n, StateOf(b))} :
            (Count(n, s.log) >= 1 /\ ~OutputsExist(n, s.fs)) => Raised(s)

(* ------------------------------- C15 ---------------------------------- *)
\* C15 as stated: in every interleaving of the processes that write the
\* Status Record, the status file a reader finds holds the complete text of
\* one update (a file that no update wrote is not the claim's concern),
\* never an empty, partial or mixed text
C15_AtomicStatusWrites ==
    sfile # Absent => IsRecord(inodes[sfile]) \/ IsForeign(inodes[sfile])

(* ------------------------------- C16 ---------------------------------- *)
\* C16 as stated: is_working never raises; it returns False when the status
\* file is absent, unreadable or malformed; on a "working" record it returns
\* True without a task name and otherwise whether the task's marker exists;
\* on any other record it returns a false value
C16_IsWorkingNeverRaises ==
    /\ answer \in {"none", "True", "False", "None"}
    /\ \A t \in {0} \cup Tasks :
         \A r \in {is_working_result(t, status_read(sfile, inodes), locks)} :
            /\ r \in {"True", "False", "None"}
            /\ (sfile = Absent \/ ~IsRecord(inodes[sfile])) => r = "False"
            /\ (sfile # Absent /\ IsRecord(inodes[sfile])) =>
                  IF inodes[sfile][1].st = "working"
                  THEN r = (IF t = 0 \/ locks[t] THEN "True" ELSE "False")
                  ELSE r \in {"False", "None"}

C18_RunExecutesOnce ==
    \A n \in Tasks : Storing(n) =>
        \A b \in GraphBehaviours : \A s \in {run(n, StateOf(b))} :
            s.exc # "LockException" => Count(n, s.log) = 1

\* C18 amended: a run() of a storing task that acquires the lock executes
\* the computation exactly once, stale or not, when __enter__ resolves the
\* task's inputs, and not at all when resolving them raises; run() of a task
\* without outputs takes no lock, executes nothing and changes nothing
C18_RunExecutesOnce_amended ==
    \A n \in Tasks : \A b \in GraphBehaviours :
        IF Storing(n)
        THEN \A e \in {enter(n, StateOf(b))} : \A s \in {run(n, StateOf(b))} :
                 e.exc # "LockException" =>
                     Count(n, s.log) = (IF Raised(e) THEN 0 ELSE 1)
        ELSE run_task(n, StateOf(b)) = StateOf(b)

\* a storing task that is current after a completed run of it, and whose
\* run() would read an input that raises
C18_Witness ==
    \E n \in Tasks :
        /\ Storing(n)
        /\ is_current(n)
        /\ status = StatusUpdate("done", n, WalkPid)
        /\ \E s \in {run(n, StateOf([bad |-> n, kind |-> "inraise"]))} :
               s.exc = "InputError" /\ s.log = <<>>

(* ------------------------------- C19 ---------------------------------- *)
\* C19 as stated: every invocation (call, load or force) of a task without
\* outputs executes its computation exactly once
C19_NoStoreInvocation ==
    \A n \in Tasks : ~Storing(n) =>
        \A b \in GraphBehaviours : \A s \in {call_nostore(n, StateOf(b))} :
            Count(n, s.log) = 1

\* C19 amended: an invocation of a task without outputs executes its
\* computation at most once, and exactly once when it returns; the
\* computation comes last, after the computation of every storing task that
\* report() listed as needing to run, and with the task's own marker and
\* flag set; nothing is reused, as this holds in every state, also after
\* earlier invocations
C19_NoStoreInvocation_amended ==
    \A n \in Tasks : ~Storing(n) =>
        \A b \in GraphBehaviours : \A s \in {call_nostore(n, StateOf(b))} :
            /\ Count(n, s.log) <= 1
            /\ ~Raised(s) => Count(n, s.log) = 1
            /\ Count(n, s.log) = 1 =>
                  /\ s.log[Len(s.log)] = n
                  /\ s.held[Len(s.log)]
                  /\ StoringOf(report(n)) \subseteq Range(s.log)

\* a task without outputs has been invoked and has returned, its storing
\* upstream task is stale again, and the next invocation computes both
C19_Witness ==
    \E n \in Tasks :
        /\ ~Storing(n)
        /\ status = StatusUpdate("done", n, WalkPid)
        /\ StoringOf(report(n)) # {}
        /\ \E s \in {call_nostore(n, Now)} :
               ~Raised(s) /\ Count(n, s.log) = 1 /\ Len(s.log) >= 2

(* ------------------------------- C20 ---------------------------------- *)
\* a task with no declared inputs and no declared outputs
Isolated(n) == g.outs[n] = 0 /\ g.ins[n] = <<>> /\ g.in_files[n] = {}

\* C20: for a task with no declared inputs and no declared outputs,
\* is_current() is true in every reachable state, and sync() - before and
\* after the first successful run - invokes no computation, raises nothing
\* and changes nothing
C20_IsolatedAlwaysCurrent ==
    \A n \in Tasks : Isolated(n) =>
        /\ is_current(n)
        /\ report(n) = <<>>
        /\ \A b \in GraphBehaviours : Untraced(sync_in(n, StateOf(b))) = StateOf(b)

\* such a task has been invoked and has returned
C20_Witness ==
    \E n \in Tasks : Isolated(n) /\ status = StatusUpdate("done", n, WalkPid)

(* ------------------------------- C21 ---------------------------------- *)
\* C21: clear() of a task without outputs fails with NotImplementedError and
\* deletes nothing; Tasker.clear deletes the declared outputs of every
\* storing task, skips the tasks without outputs and so never fails with
\* that error; after it is_current() is true of no storing task
C21_Clear ==
    /\ \A n \in Tasks : ~Storing(n) =>
           \A s \in {clear(n, Now)} : s.exc = "NotImplementedError" /\ s.fs = fs
    /\ \A s \in {clear_tasks(Tasks, Now)} :
           /\ ~Raised(s)
           /\ \A n \in Tasks : Storing(n) =>
                  /\ \A f \in output_files(n) : s.fs[f] = Absent
                  /\ ~is_current_in(n, s)
           /\ \A f \in AllFiles \ UNION {output_files(n) : n \in Tasks} :
                  s.fs[f] = fs[f]

\* a registry with a task without outputs and a storing task that is
\* current, its outputs on disk
C21_Witness ==
    /\ \E n \in Tasks : ~Storing(n)
    /\ \E n \in Tasks : Storing(n) /\ is_current(n) /\ OutputsExist(n, fs)
    /\ \E f \in LitFiles : fs[f] # Absent

(* ------------------------------- C22 ---------------------------------- *)
\* a storing task n with a storing input u whose output is on disk but stale
StaleInput(n, u) ==
    /\ Storing(n) /\ Storing(u)
    /\ u \in Range(g.ins[n])
    /\ AcyclicFrom(n)
    /\ OutputsExist(u, fs)
    /\ ~is_current(u)

\* C22 as stated: a direct run() of n re-runs a stale upstream storing
\* input before the computation of n is given its data
C22_RunSyncsInputs ==
    \A n \in Tasks : \A u \in Tasks : StaleInput(n, u) =>
        \A s \in {run(n, Now)} :
            Count(n, s.log) = 1 => Count(u, s.log) >= 1

\* C22 amended: while run() resolves the inputs of a storing task, an
\* upstream storing task is only loaded from disk: when every input is a
\* storing task, run() invokes no computation but the task's own and leaves
\* the upstream outputs as they are, stale or missing; an input without
\* outputs is called, which syncs its own upstream tasks and computes it
C22_RunSyncsInputs_amended ==
    \A n \in Tasks : Storing(n) =>
        \A b \in GraphBehaviours : \A s \in {run(n, StateOf(b))} :
            /\ (\A u \in Range(g.ins[n]) : Storing(u)) =>
                  /\ Range(s.log) \subseteq {n}
                  /\ \A f \in AllFiles \ output_files(n) : s.fs[f] = fs[f]
            /\ Count(n, s.log) = 1 =>
                  \A u \in Range(g.ins[n]) : ~Storing(u) =>
                      /\ Count(u, s.log) >= 1
                      /\ StoringOf(report(u)) \subseteq Range(s.log)

\* a storing task with a stale storing input, after a completed run
C22_Witness ==
    /\ status.status = "done"
    /\ \E n \in Tasks : \E u \in Tasks :
           StaleInput(n, u) /\ \A v \in Range(g.ins[n]) : Storing(v)

(* ------------------------------- C23 ---------------------------------- *)
\* the upstream storing tasks of n that need to run, and those that are
\* current
StaleUp(n) == {u \in Upstream(n) : Storing(u) /\ NeedsRun(u)}
CurrentUp(n) == {u \in Upstream(n) : Storing(u) /\ is_current(u)}

\* C23 as stated: force() of a storing task invokes its computation exactly
\* once, runs every stale upstream storing task and invokes the computation
\* of no upstream storing task that is current
C23_Force ==
    \A n \in Tasks : (Storing(n) /\ AcyclicFrom(n)) =>
        \A b \in GraphBehaviours : \A s \in {force_in(n, StateOf(b))} :
            /\ Count(n, s.log) = 1
            /\ StaleUp(n) \subseteq Range(s.log)
            /\ CurrentUp(n) \cap Range(s.log) = {}

\* C23 amended: a force() of a storing task that returns has invoked the
\* task's computation exactly once, current or not, and last, after the
\* computation of every stale upstream storing task; a force() that raises
\* has invoked it at most once; in both cases the computation of no
\* upstream storing task that was current is invoked
C23_Force_amended ==
    \A n \in Tasks : (Storing(n) /\ AcyclicFrom(n)) =>
        \A b \in GraphBehaviours : \A s \in {force_in(n, StateOf(b))} :
            /\ Count(n, s.log) <= 1
            /\ ~Raised(s) =>
                  /\ Count(n, s.log) = 1
                  /\ s.log[Len(s.log)] = n
                  /\ StaleUp(n) \subseteq Range(s.log)
            /\ CurrentUp(n) \cap Range(s.log) = {}

\* a storing task that is current, with a current and (in another registry
\* state) a stale upstream storing task
C23_Witness ==
    \E n \in Tasks :
        /\ Storing(n) /\ AcyclicFrom(n) /\ is_current(n)
        /\ CurrentUp(n) # {}
        /\ \E s \in {force_in(n, Now)} : s.log = <<n>>

(* ------------------------------- C24 ---------------------------------- *)
\* how often event e of task t occurs in the trace before position i
Before(E, i, e, t) == Cardinality({j \in 1..(i - 1) : E[j] = [e |-> e, t |-> t]})

\* at position i of the trace, _walk_up of u has been entered and has not
\* returned, or u is between __enter__ and __exit__
MidWalk(E, i, u) == Before(E, i, "visit", u) > Before(E, i, "return", u)
MidRun(E, i, u) == Before(E, i, "enter", u) > Before(E, i, "exit", u)

\* the decision at position i, for task t, comes after _walk_up has returned
\* from every input task of t, entered since _walk_up entered t
Walked(E, i, t) ==
    \E v \in 1..(i - 1) :
        /\ E[v] = [e |-> "visit", t |-> t]
        /\ \A j \in (v + 1)..(i - 1) : E[j] # [e |-> "visit", t |-> t]
        /\ \A u \in Range(g.input_tasks[t]) :
              \E j \in (v + 1)..(i - 1) : E[j] = [e |-> "return", t |-> u]

PostOrder(E) ==
    \A i \in 1..Len(E) : E[i].e \in {"decide", "func"} =>
        /\ \A u \in Upstream(E[i].t) : ~MidWalk(E, i, u) /\ ~MidRun(E, i, u)
        /\ E[i].e = "decide" => Walked(E, i, E[i].t)

\* C24: within one sync() or force() on an acyclic graph, a node's staleness
\* is decided, and its computation is started, only after the traversal of
\* every one of its upstream tasks, any run included, has completed: at the
\* decision _walk_up has returned from each input task, and neither then nor
\* when the computation starts is an upstream task inside _walk_up or
\* between __enter__ and __exit__
C24_PostOrder ==
    \A n \in Tasks : AcyclicFrom(n) =>
        \A b \in GraphBehaviours :
            \A s \in {sync_in(n, StateOf(b)), force_in(n, StateOf(b))} :
                PostOrder(s.ev)

\* a sync() that ran a stale upstream storing task and then the task itself
C24_Witness ==
    \E n \in Tasks : \E u \in StaleUp(n) :
        /\ Storing(n) /\ AcyclicFrom(n)
        /\ \E s \in {sync_in(n, Now)} : ~Raised(s) /\ {u, n} \subseteq Range(s.log)

(* ------------------------------- C25 ---------------------------------- *)
\* the marker of t exists while a process executes the computation of t
MarkerWhileComputing ==
    \A p \in Procs : Computing(p) => locks[ptask[p]]

\* no marker of t exists when no process is inside a run of t
NoMarkerAfterExit ==
    \A t \in LockTasks :
        (\A p \in Procs : ptask[p] = t => pc[p] = "idle") => ~locks[t]

\* a marker comes into existence only in the step of a process that has
\* passed the in-process check and the is_working check of __enter__
MarkerAfterChecks ==
    \A t \in LockTasks : (~locks[t] /\ locks'[t]) =>
        \E p \in Procs : ptask[p] = t /\ ~prunning[p] /\ pc[p] = "getcwd"
                                      /\ pc'[p] = "working"

\* C25 (as claimed): without crashes and unlock(), with several processes,
\* in every reachable state the lock marker of task T exists whenever some
\* process is executing T's computation, no marker of T exists once every
\* run of T has exited, and the marker is created only after the
\* reentrancy check and the is_working check have passed
C25_LockLifecycle ==
    /\ [](MarkerWhileComputing /\ NoMarkerAfterExit)
    /\ [][MarkerAfterChecks]_vars

(* ------------------------------- C26 ---------------------------------- *)
\* no input file of t is missing
InputsExist(t) == \A f \in input_files(t) : fs[f] # Absent

\* C26: with no run warranted, a task without outputs reports is_current()
\* true only if every one of its input files exists and every one of its
\* input tasks reports done; a storing task for which no run is warranted
\* reports is_current() true whether or not input files are missing; and for
\* every task, is_current() true implies that report() is empty
C26_DoneVersusAllCurrent ==
    \A n \in Tasks : AcyclicFrom(n) =>
        /\ (~Storing(n) /\ is_current(n)) =>
              /\ InputsExist(n)
              /\ \A u \in Range(g.input_tasks[n]) : is_current(u)
        /\ (Storing(n) /\ n \notin Range(report(n))) => is_current(n)
        /\ is_current(n) => report(n) = <<>>

\* the cases in one state: a current storing task with a missing input
\* file, and two tasks without outputs that are not current while report()
\* is empty, one for a missing input file, one for an input task not done
C26_Witness ==
    /\ \E n \in Tasks : Storing(n) /\ AcyclicFrom(n) /\ is_current(n) /\ ~InputsExist(n)
    /\ \E n \in Tasks : ~Storing(n) /\ AcyclicFrom(n) /\ ~is_current(n)
                        /\ report(n) = <<>> /\ ~InputsExist(n)
    /\ \E n \in Tasks : ~Storing(n) /\ AcyclicFrom(n) /\ ~is_current(n)
                        /\ report(n) = <<>> /\ InputsExist(n)
                        /\ \E u \in Range(g.input_tasks[n]) : ~is_current(u)

(* ------------------------------- C27 ---------------------------------- *)
\* C27 (as claimed): within one sync() or force() on an acyclic graph the
\* computation of each storing task is invoked at most once, also when the
\* task is reached over several paths
C27_AtMostOnce ==
    \A n \in Tasks : AcyclicFrom(n) =>
        \A b \in GraphBehaviours :
            \A s \in {sync_in(n, StateOf(b)), force_in(n, StateOf(b))} :
                \A t \in Tasks : Storing(t) => Count(t, s.log) <= 1

(* ------------------------------- C28 ---------------------------------- *)
\* the state s when another process is inside run() of task h: the marker of
\* h exists and the Status Record says that h is being worked on
HeldElsewhere(h, s) ==
    [s EXCEPT !.locks[h] = TRUE, !.status = StatusUpdate("working", h, WalkPid + 1)]

\* the ways a run can fail: the task's computation or input resolution
\* misbehaves (b), or another process holds the task's lock (h)
Failures ==
    {[b |-> b, h |-> 0] : b \in GraphBehaviours \ {OkBeh}}
        \cup {[b |-> OkBeh, h |-> t] : t \in Tasks}
FailedTask(c) == IF c.h # 0 THEN c.h ELSE c.b.bad
StartOf(c) == IF c.h # 0 THEN HeldElsewhere(c.h, StateOf(c.b)) ELSE StateOf(c.b)

\* the exception the failing run raises
ErrorOf(c) ==
    IF c.h # 0 THEN "LockException"
    ELSE CASE c.b.kind = "raise" -> "FuncError"
           [] c.b.kind = "inraise" -> "InputError"
           [] c.b.kind = "badcount" -> "AttributeError"
           [] c.b.kind = "nowrite" -> "FailedToUpdate"

\* what holds of the state s in which a sync() started in s0 has raised for
\* the failure c
PartialFailure(c, s0, s) ==
    /\ s.exc = ErrorOf(c)
    /\ \A t \in Tasks : FailedTask(c) \in Upstream(t) => t \notin Range(s.log)
    /\ \A t \in Range(s.log) \ {FailedTask(c)} :
          \A f \in output_files(t) : s.fs[f] # Absent
    /\ \A f \in AllFiles : s0.fs[f] # Absent => s.fs[f] = s0.fs[f] \/ s.fs[f] = s.clock
    /\ \A t \in Tasks : /\ s.locks[t] => s0.locks[t]
                        /\ ~s.running[t]
                        /\ ~s.syncing[t]

\* C28: if during sync() on an acyclic graph the run of a task raises (from
\* its computation, its input resolution, a locking error or the
\* stale-output check), the exception reaches the caller of sync()
\* unchanged, no computation of a task downstream of the failed one has been
\* invoked, the outputs of the tasks that ran successfully are on disk, and
\* on return no lock marker created by the call remains and no task is
\* flagged as running or traversing
C28_PartialFailure ==
    \A n \in Tasks : AcyclicFrom(n) =>
        \A c \in Failures : \A s \in {sync_in(n, StartOf(c))} :
            Raised(s) => PartialFailure(c, StartOf(c), s)

\* a sync() in which an upstream task ran successfully and wrote its output
\* before the run of another upstream task raised
C28_Witness ==
    \E n \in Tasks : \E c \in Failures : \E s \in {sync_in(n, StartOf(c))} :
        /\ AcyclicFrom(n) /\ Raised(s)
        /\ FailedTask(c) \in Upstream(n)
        /\ \E t \in Range(s.log) \ {FailedTask(c)} : Storing(t)

====
